---- MODULE Spec2Model ----
(***************************************************************************)
(* Model of the welder crate (src/lib.rs): a consuming builder that        *)
(* accumulates elements into an Extend-able destination, inserting a glue  *)
(* value around the elements according to a placement policy.              *)
(*                                                                         *)
(* The destination type T is generic in the source.  Two std destinations  *)
(* are modelled, the two used by the crate's tests:                        *)
(*   "Vec"    : Vec<&str> with G = &str; extend pushes every item, so the  *)
(*              content is the sequence of items;                          *)
(*   "String" : String with G = char and E = &str; extend pushes the       *)
(*              characters of every item, so the content is the sequence   *)
(*              of characters.                                             *)
(* A &str is a sequence of characters, a char a sequence of length one.    *)
(***************************************************************************)
EXTENDS Integers, Sequences, FiniteSets, TLC

VARIABLES
    dest,     \* the destination type T of this Welder: "Vec" or "String"
    welder,   \* the Welder value [glue, welded], or Moved after weld()
    pc,       \* "building" while the Welder is owned, "welded" after weld()
    result,   \* the value returned by weld()
    ctor,     \* ghost: the constructor call [kind, glue, start]
    hist,     \* ghost: the elements appended so far, [policy, elem] each
    last,     \* ghost: the last call [op, args, pre] (pre = Welder before)
    heap,     \* mutable-reference style: the Welders living in memory
    ref,      \* mutable-reference style: the &mut Welder the caller holds
    mresult   \* mutable-reference style: the value returned by weld()

vars == <<dest, welder, pc, result, ctor, hist, last, heap, ref, mresult>>

\* ---------------------------------------------------------------- bounds
MaxElems == 3      \* elements appended to one Welder after construction
MaxBatch == 2      \* length of the iterator given to a batch operation

\* ---------------------------------------------------------------- values
Dests == {"Vec", "String"}
Elems == {<<1>>, <<2, 1>>}        \* the &str elements handed to the Welder
Glues == {<<1>>, <<2>>}           \* the glue values (one character each)
Policies == {"none", "left", "right", "both"}
Moved == "moved"
NoResult == "none"
Null == 0

RECURSIVE Flatten(_)
Flatten(items) ==
    IF items = << >> THEN << >> ELSE Head(items) \o Flatten(Tail(items))

Batches == UNION {[1..n -> Elems] : n \in 0..MaxBatch}

\* ------------------------------------------------- std pieces the code uses
\* <T as Default>::default(): the empty Vec / the empty String
Default(d) == << >>

\* std::iter::once
once(x) == <<x>>

\* Clone::clone of the glue (char / &str are Copy)
clone(g) == g

\* Extend::extend of the destination: Vec pushes each item, String pushes
\* the characters of each item
extend(d, t, iter) ==
    IF d = "Vec" THEN t \o iter ELSE t \o Flatten(iter)

\* ------------------------------------------------------------ the Welder
new(d, glue) == [glue |-> glue, welded |-> Default(d)]

weld(self) == self.welded

elem_no_glue_glued(d, self, e) ==
    LET s1 == [self EXCEPT !.welded = extend(d, @, once(clone(self.glue)))]
    IN  [s1 EXCEPT !.welded = extend(d, @, once(e))]

elem_no_glue(d, self, e) ==
    [self EXCEPT !.welded = extend(d, @, once(e))]

with_start_glued(d, glue, start) ==
    elem_no_glue_glued(d, new(d, glue), start)

with_start(d, glue, start) ==
    LET w == new(d, glue) IN elem_no_glue(d, w, start)

RECURSIVE DropRepeats(_)
DropRepeats(s) ==
    IF Len(s) <= 1 THEN s
    ELSE IF s[1] = s[2] THEN DropRepeats(Tail(s))
         ELSE <<s[1]>> \o DropRepeats(Tail(s))

elems_no_glue_dedup(d, self, elems) ==
    [self EXCEPT !.welded = extend(d, @, DropRepeats(elems))]

elems_no_glue(d, self, elems) ==
    [self EXCEPT !.welded = extend(d, @, elems)]

elem_glue_right_sep(d, self, e) ==
    LET s1 == [self EXCEPT !.welded = extend(d, @, once(e))]
    IN  IF self.welded = << >> THEN s1
        ELSE [s1 EXCEPT !.welded = extend(d, @, once(clone(s1.glue)))]

elem_glue_right_as_left(d, self, e) ==
    LET s1 == [self EXCEPT !.welded = extend(d, @, once(clone(self.glue)))]
    IN  [s1 EXCEPT !.welded = extend(d, @, once(e))]

elem_glue_right(d, self, e) ==
    LET s1 == [self EXCEPT !.welded = extend(d, @, once(e))]
    IN  [s1 EXCEPT !.welded = extend(d, @, once(clone(s1.glue)))]

RECURSIVE elems_glue_right(_, _, _)
elems_glue_right(d, self, elems) ==
    IF elems = << >> THEN self
    ELSE elems_glue_right(d, elem_glue_right(d, self, Head(elems)), Tail(elems))

elem_glue_left_skip_first(d, self, e) ==
    LET s1 == IF self.welded = << >> THEN self
              ELSE [self EXCEPT !.welded = extend(d, @, once(clone(self.glue)))]
    IN  [s1 EXCEPT !.welded = extend(d, @, once(e))]

elem_glue_left_swapped(d, self, e) ==
    LET s1 == [self EXCEPT !.welded = extend(d, @, once(e))]
    IN  [s1 EXCEPT !.welded = extend(d, @, once(clone(s1.glue)))]

elem_glue_left(d, self, e) ==
    LET s1 == [self EXCEPT !.welded = extend(d, @, once(clone(self.glue)))]
    IN  [s1 EXCEPT !.welded = extend(d, @, once(e))]

elems_glue_left_once(d, self, elems) ==
    IF elems = << >> THEN self
    ELSE LET s1 == [self EXCEPT !.welded = extend(d, @, once(clone(self.glue)))]
         IN  [s1 EXCEPT !.welded = extend(d, @, elems)]

RECURSIVE elems_glue_left(_, _, _)
elems_glue_left(d, self, elems) ==
    IF elems = << >> THEN self
    ELSE elems_glue_left(d, elem_glue_left(d, self, Head(elems)), Tail(elems))

elem(d, self, e) == elem_glue_left(d, self, e)

elems(d, self, es) == elems_glue_left(d, self, es)

elem_glue_both_dedupe(d, self, e) ==
    LET g  == extend(d, << >>, once(clone(self.glue)))
        n  == Len(self.welded)
        s1 == IF n >= Len(g) /\ SubSeq(self.welded, n - Len(g) + 1, n) = g
              THEN self
              ELSE [self EXCEPT !.welded = extend(d, @, once(clone(self.glue)))]
        s2 == [s1 EXCEPT !.welded = extend(d, @, once(e))]
    IN  [s2 EXCEPT !.welded = extend(d, @, once(clone(s2.glue)))]

elem_glue_both_take(d, self, e) ==
    LET s1 == [self EXCEPT !.welded = extend(d, @, once(self.glue)),
                           !.glue = << >>]
        s2 == [s1 EXCEPT !.welded = extend(d, @, once(e))]
    IN  [s2 EXCEPT !.welded = extend(d, @, once(clone(s2.glue)))]

elem_glue_both(d, self, e) ==
    LET s1 == [self EXCEPT !.welded = extend(d, @, once(clone(self.glue)))]
        s2 == [s1 EXCEPT !.welded = extend(d, @, once(e))]
    IN  [s2 EXCEPT !.welded = extend(d, @, once(clone(s2.glue)))]

RECURSIVE elems_glue_both(_, _, _)
elems_glue_both(d, self, es) ==
    IF es = << >> THEN self
    ELSE elems_glue_both(d, elem_glue_both(d, self, Head(es)), Tail(es))

\* ------------------------------------------------------------ ghost log
Entries(policy, es) == [i \in 1..Len(es) |-> [policy |-> policy, elem |-> es[i]]]

Call(op, es) == [op |-> op, args |-> es, pre |-> welder]

Log(op, policy, es) ==
    /\ hist' = hist \o Entries(policy, es)
    /\ last' = Call(op, es)
    /\ UNCHANGED <<dest, pc, result, ctor>>

CanAppend(k) == pc = "building" /\ Len(hist) + k <= MaxElems

\* ------------------------------------------------------------ initial states
Construct ==
    /\ dest \in Dests
    /\ \E g \in Glues :
         \/ /\ welder = new(dest, g)
            /\ ctor = [kind |-> "new", glue |-> g, start |-> << >>]
            /\ last = [op |-> "new", args |-> << >>, pre |-> new(dest, g)]
         \/ \E s \in Elems :
            /\ welder = with_start(dest, g, s)
            /\ ctor = [kind |-> "with_start", glue |-> g, start |-> <<s>>]
            /\ last = [op |-> "with_start", args |-> <<s>>, pre |-> new(dest, g)]
    /\ pc = "building"
    /\ result = NoResult
    /\ hist = << >>

Init ==
    /\ Construct
    /\ heap = << >>
    /\ ref = Null
    /\ mresult = NoResult

\* ------------------------------------------------------------ operations
ElemNoGlue ==
    \E e \in Elems :
        /\ CanAppend(1)
        /\ welder' = elem_no_glue(dest, welder, e)
        /\ Log("elem_no_glue", "none", <<e>>)
        /\ UNCHANGED <<heap, ref, mresult>>

ElemsNoGlue ==
    \E es \in Batches :
        /\ CanAppend(Len(es))
        /\ welder' = elems_no_glue(dest, welder, es)
        /\ Log("elems_no_glue", "none", es)
        /\ UNCHANGED <<heap, ref, mresult>>

Elem ==
    \E e \in Elems :
        /\ CanAppend(1)
        /\ welder' = elem(dest, welder, e)
        /\ Log("elem", "left", <<e>>)
        /\ UNCHANGED <<heap, ref, mresult>>

ElemsOp ==
    \E es \in Batches :
        /\ CanAppend(Len(es))
        /\ welder' = elems(dest, welder, es)
        /\ Log("elems", "left", es)
        /\ UNCHANGED <<heap, ref, mresult>>

ElemGlueRight ==
    \E e \in Elems :
        /\ CanAppend(1)
        /\ welder' = elem_glue_right(dest, welder, e)
        /\ Log("elem_glue_right", "right", <<e>>)
        /\ UNCHANGED <<heap, ref, mresult>>

ElemsGlueRight ==
    \E es \in Batches :
        /\ CanAppend(Len(es))
        /\ welder' = elems_glue_right(dest, welder, es)
        /\ Log("elems_glue_right", "right", es)
        /\ UNCHANGED <<heap, ref, mresult>>

ElemGlueLeft ==
    \E e \in Elems :
        /\ CanAppend(1)
        /\ welder' = elem_glue_left(dest, welder, e)
        /\ Log("elem_glue_left", "left", <<e>>)
        /\ UNCHANGED <<heap, ref, mresult>>

ElemsGlueLeft ==
    \E es \in Batches :
        /\ CanAppend(Len(es))
        /\ welder' = elems_glue_left(dest, welder, es)
        /\ Log("elems_glue_left", "left", es)
        /\ UNCHANGED <<heap, ref, mresult>>

ElemGlueBoth ==
    \E e \in Elems :
        /\ CanAppend(1)
        /\ welder' = elem_glue_both(dest, welder, e)
        /\ Log("elem_glue_both", "both", <<e>>)
        /\ UNCHANGED <<heap, ref, mresult>>

ElemsGlueBoth ==
    \E es \in Batches :
        /\ CanAppend(Len(es))
        /\ welder' = elems_glue_both(dest, welder, es)
        /\ Log("elems_glue_both", "both", es)
        /\ UNCHANGED <<heap, ref, mresult>>

Weld ==
    /\ pc = "building"
    /\ result' = weld(welder)
    /\ welder' = Moved
    /\ pc' = "welded"
    /\ last' = [op |-> "weld", args |-> << >>, pre |-> welder]
    /\ UNCHANGED <<dest, ctor, hist, heap, ref, mresult>>

Next ==
    \/ ElemNoGlue
    \/ ElemsNoGlue
    \/ Elem
    \/ ElemsOp
    \/ ElemGlueRight
    \/ ElemsGlueRight
    \/ ElemGlueLeft
    \/ ElemsGlueLeft
    \/ ElemGlueBoth
    \/ ElemsGlueBoth
    \/ Weld

Spec == Init /\ [][Next]_vars

\* ------------------------------------------------------------------------
\* The mutable-reference style of the same builder: the Welder lives in
\* memory, every append takes &mut self, changes the Welder in place and
\* returns the same reference; weld() takes the Welder out by value.
\* ------------------------------------------------------------------------
Addr == 1

mut_create(d, glue) == (Addr :> [glue |-> glue, welded |-> << >>])

mut_push(d, h, r, x) ==
    [h EXCEPT ![r].welded = IF d = "Vec" THEN Append(@, x) ELSE @ \o x]

mut_append(d, h, r, policy, e) ==
    CASE policy = "none"  -> mut_push(d, h, r, e)
      [] policy = "left"  -> mut_push(d, mut_push(d, h, r, h[r].glue), r, e)
      [] policy = "right" -> mut_push(d, mut_push(d, h, r, e), r, h[r].glue)
      [] policy = "both"  ->
            mut_push(d, mut_push(d, mut_push(d, h, r, h[r].glue), r, e),
                     r, h[r].glue)

mut_create_with_start(d, glue, first) ==
    mut_push(d, mut_create(d, glue), Addr, first)

RECURSIVE mut_append_all(_, _, _, _, _)
mut_append_all(d, h, r, policy, es) ==
    IF es = << >> THEN h
    ELSE mut_append_all(d, mut_append(d, h, r, policy, Head(es)), r, policy,
                        Tail(es))

mut_weld(h, r) == h[r].welded

\* the consuming operation of each placement policy
Single(policy, d, self, e) ==
    CASE policy = "none"  -> elem_no_glue(d, self, e)
      [] policy = "left"  -> elem_glue_left(d, self, e)
      [] policy = "right" -> elem_glue_right(d, self, e)
      [] policy = "both"  -> elem_glue_both(d, self, e)

Batch(policy, d, self, es) ==
    CASE policy = "none"  -> elems_no_glue(d, self, es)
      [] policy = "left"  -> elems_glue_left(d, self, es)
      [] policy = "right" -> elems_glue_right(d, self, es)
      [] policy = "both"  -> elems_glue_both(d, self, es)

SingleName(policy) ==
    IF policy = "none" THEN "elem_no_glue" ELSE "elem_glue_" \o policy

BatchName(policy) ==
    IF policy = "none" THEN "elems_no_glue" ELSE "elems_glue_" \o policy

InitStyles ==
    /\ Construct
    /\ ref = Addr
    /\ heap = IF ctor.kind = "new" THEN mut_create(dest, ctor.glue)
              ELSE mut_create_with_start(dest, ctor.glue, ctor.start[1])
    /\ mresult = NoResult

StyleAppend ==
    \E policy \in Policies, e \in Elems :
        /\ CanAppend(1)
        /\ welder' = Single(policy, dest, welder, e)
        /\ heap' = mut_append(dest, heap, ref, policy, e)
        /\ Log(SingleName(policy), policy, <<e>>)
        /\ UNCHANGED <<ref, mresult>>

StyleAppendAll ==
    \E policy \in Policies, es \in Batches :
        /\ CanAppend(Len(es))
        /\ welder' = Batch(policy, dest, welder, es)
        /\ heap' = mut_append_all(dest, heap, ref, policy, es)
        /\ Log(BatchName(policy), policy, es)
        /\ UNCHANGED <<ref, mresult>>

StyleWeld ==
    /\ pc = "building"
    /\ result' = weld(welder)
    /\ welder' = Moved
    /\ mresult' = mut_weld(heap, ref)
    /\ heap' = << >>
    /\ ref' = Null
    /\ pc' = "welded"
    /\ last' = [op |-> "weld", args |-> << >>, pre |-> welder]
    /\ UNCHANGED <<dest, ctor, hist>>

NextStyles ==
    \/ StyleAppend
    \/ StyleAppendAll
    \/ StyleWeld

SpecStyles == InitStyles /\ [][NextStyles]_vars


\* ------------------------------------------------------------------------
\* Properties
\* ------------------------------------------------------------------------
\* a list of items as the destination holds it
Content(d, items) == IF d = "Vec" THEN items ELSE Flatten(items)

HistElems == [i \in 1..Len(hist) |-> hist[i].elem]

AllPolicy(p) == \A i \in 1..Len(hist) : hist[i].policy = p

Count(p) == Cardinality({i \in 1..Len(hist) : hist[i].policy = p})

\* [g, e1, g, e2, ..., g, en]
GlueLeftList(g, es) ==
    [i \in 1..(2 * Len(es)) |-> IF i % 2 = 1 THEN g ELSE es[i \div 2]]

\* [e1, g, e2, g, ..., en, g]
GlueRightList(g, es) ==
    [i \in 1..(2 * Len(es)) |-> IF i % 2 = 1 THEN es[(i + 1) \div 2] ELSE g]

\* [g, e1, g, g, e2, g, ..., g, en, g]
GlueBothList(g, es) ==
    [i \in 1..(3 * Len(es)) |-> IF i % 3 = 2 THEN es[(i + 1) \div 3] ELSE g]

PolicyList(p, g, es) ==
    CASE p = "none"  -> es
      [] p = "left"  -> GlueLeftList(g, es)
      [] p = "right" -> GlueRightList(g, es)
      [] p = "both"  -> GlueBothList(g, es)

SingleOps == {"elem_no_glue", "elem", "elem_glue_left", "elem_glue_right",
              "elem_glue_both"}

BatchOps == {"elems_no_glue", "elems", "elems_glue_left", "elems_glue_right",
             "elems_glue_both"}

PolicyOf(op) ==
    CASE op \in {"elem_no_glue", "elems_no_glue"}                     -> "none"
      [] op \in {"elem", "elems", "elem_glue_left", "elems_glue_left"} -> "left"
      [] op \in {"elem_glue_right", "elems_glue_right"}               -> "right"
      [] op \in {"elem_glue_both", "elems_glue_both"}                 -> "both"

IsPrefix(a, b) == Len(a) <= Len(b) /\ SubSeq(b, 1, Len(a)) = a

RECURSIVE IsSubseq(_, _)
IsSubseq(a, b) ==
    IF a = << >> THEN TRUE
    ELSE IF b = << >> THEN FALSE
    ELSE IF Head(a) = Head(b) THEN IsSubseq(Tail(a), Tail(b))
    ELSE IsSubseq(a, Tail(b))

Occurrences(x, s) == Cardinality({i \in 1..Len(s) : s[i] = x})

\* the accumulated content, also once it was handed out by weld()
Welded == IF pc = "building" THEN welder.welded ELSE result

\* C1: new(glue), then glue-left appends of e1..en (elem_glue_left, elem or
\* their batch forms), then weld() returns [glue, e1, glue, e2, ..., glue, en]:
\* one glue right before every element, the first included, nothing after the
\* last element.
C1_GlueLeft ==
    (pc = "welded" /\ ctor.kind = "new" /\ AllPolicy("left"))
        => result = Content(dest, GlueLeftList(ctor.glue, HistElems))

C1_Witness ==
    /\ pc = "welded" /\ ctor.kind = "new" /\ AllPolicy("left")
    /\ Len(hist) >= 2 /\ hist[1].elem # hist[2].elem
    /\ result = Content(dest, GlueLeftList(ctor.glue, HistElems))

\* C2: new(glue), then glue-right appends of e1..en, then weld() returns
\* [e1, glue, ..., en, glue]; nothing is put between earlier content and the
\* appended element, so after with_start(glue, s) the result is
\* [s, e1, glue, ..., en, glue].
C2_GlueRight ==
    (pc = "welded" /\ AllPolicy("right"))
        => result = Content(dest, ctor.start \o GlueRightList(ctor.glue, HistElems))

C2_Witness ==
    /\ pc = "welded" /\ ctor.kind = "with_start" /\ AllPolicy("right")
    /\ Len(hist) >= 2 /\ hist[1].elem # hist[2].elem
    /\ result = Content(dest, ctor.start \o GlueRightList(ctor.glue, HistElems))

\* C3: new(glue), then glue-both appends of e1..en, then weld() returns
\* [glue, e1, glue, glue, e2, glue, ..., glue, en, glue]: two adjacent glues
\* stand between consecutive elements and are never merged into one.
C3_GlueBoth ==
    (pc = "welded" /\ ctor.kind = "new" /\ AllPolicy("both"))
        => /\ result = Content(dest, GlueBothList(ctor.glue, HistElems))
           /\ dest = "Vec" =>
                /\ Len(result) = 3 * Len(hist)
                /\ \A i \in 1..(Len(hist) - 1) :
                      /\ result[3 * i] = ctor.glue
                      /\ result[3 * i + 1] = ctor.glue
                      /\ result[3 * i + 2] = hist[i + 1].elem

C3_Witness ==
    /\ pc = "welded" /\ ctor.kind = "new" /\ AllPolicy("both")
    /\ Len(hist) >= 2
    /\ result = Content(dest, GlueBothList(ctor.glue, HistElems))

\* C4: new(glue), then no-glue appends of e1..en, then weld() returns
\* [e1, ..., en] with no glue anywhere; with no append at all it returns the
\* destination type's empty value.
C4_NoGlue ==
    (pc = "welded" /\ ctor.kind = "new" /\ AllPolicy("none"))
        => /\ result = Content(dest, HistElems)
           /\ hist = << >> => result = Default(dest)

C4_Witness ==
    /\ pc = "welded" /\ ctor.kind = "new" /\ AllPolicy("none")
    /\ Len(hist) >= 2 /\ hist[1].elem # hist[2].elem
    /\ result = Content(dest, HistElems)

\* C5: with_start(glue, first) holds exactly [first], the state of
\* new(glue).elem_no_glue(first); after glue-left appends of e2..en weld()
\* returns [first, glue, e2, ..., glue, en], which is what new(glue) with
\* glue-left appends of first, e2..en returns less its leading glue.
C5_WithStart ==
    ctor.kind = "with_start" =>
        /\ (pc = "building" /\ hist = << >>) =>
              /\ welder.welded = Content(dest, ctor.start)
              /\ welder.glue = ctor.glue
        /\ (pc = "welded" /\ AllPolicy("left")) =>
              /\ result = Content(dest, ctor.start
                                        \o GlueLeftList(ctor.glue, HistElems))
              /\ Content(dest, <<ctor.glue>>) \o result
                   = weld(elems_glue_left(dest, new(dest, ctor.glue),
                                          ctor.start \o HistElems))

C5_Witness ==
    /\ ctor.kind = "with_start" /\ pc = "welded" /\ AllPolicy("left")
    /\ Len(hist) >= 2
    /\ result = Content(dest, ctor.start \o GlueLeftList(ctor.glue, HistElems))

\* k successive single appends of x1..xk under one policy
RECURSIVE RepeatSingle(_, _, _, _)
RepeatSingle(policy, d, self, xs) ==
    IF xs = << >> THEN self
    ELSE Single(policy, d,
                RepeatSingle(policy, d, self, SubSeq(xs, 1, Len(xs) - 1)),
                xs[Len(xs)])

\* C6: under each of the four policies a batch operation leaves the Welder
\* in the state that successive single appends of x1, ..., xk under the same
\* policy leave it in; an empty batch changes nothing.
C6_BatchIsRepeatedSingle ==
    (pc = "building" /\ last.op \in BatchOps)
        => /\ welder = RepeatSingle(PolicyOf(last.op), dest, last.pre, last.args)
           /\ last.args = << >> => welder = last.pre

C6_Witness ==
    /\ pc = "building" /\ last.op = "elems_glue_left"
    /\ Len(last.args) = 2 /\ last.args[1] # last.args[2]
    /\ last.pre.welded # << >>
    /\ welder = RepeatSingle("left", dest, last.pre, last.args)

\* C7: the glue field always equals the glue given to the constructor, and
\* every glue an append inserts equals that value.
C7_GlueKept ==
    pc = "building" =>
        /\ welder.glue = ctor.glue
        /\ last.op \in SingleOps \cup BatchOps =>
              welder.welded = last.pre.welded
                  \o Content(dest, PolicyList(PolicyOf(last.op), ctor.glue,
                                              last.args))

C7_Witness ==
    /\ pc = "building" /\ last.op = "elem_glue_both"
    /\ Len(hist) >= 3 /\ hist[1].policy = "both" /\ hist[2].policy = "right"
    /\ welder.glue = ctor.glue

\* C8: the consuming builder and the mutable-reference builder, given the
\* same constructor arguments and the same appends, return the same value
\* from weld().
C8_StylesAgree ==
    /\ pc = "welded" => result = mresult
    /\ pc = "building" => heap[ref].welded = welder.welded

C8_Witness ==
    /\ pc = "welded" /\ result = mresult
    /\ Len(hist) >= 3
    /\ {hist[i].policy : i \in 1..Len(hist)} = {"left", "right", "both"}

\* C9: an append only adds at the end: the content before the call is a
\* prefix of the content after it, and the call's elements appear in the added
\* part in iteration order, none removed, reordered, deduplicated or filtered;
\* weld() hands out the content unchanged.
C9_AppendOnly ==
    [][/\ pc' = "building" =>
            /\ IsPrefix(welder.welded, welder'.welded)
            /\ IsSubseq(Content(dest, last'.args),
                        SubSeq(welder'.welded, Len(welder.welded) + 1,
                               Len(welder'.welded)))
       /\ pc' = "welded" => IsPrefix(welder.welded, result')
                            /\ IsPrefix(result', welder.welded)]_vars

C9_Witness ==
    /\ pc = "building" /\ last.op = "elems_no_glue"
    /\ Len(last.args) = 2 /\ last.args[1] = last.args[2]
    /\ last.pre.welded # << >>
    /\ IsPrefix(last.pre.welded, welder.welded)

\* what one append adds: [e], [glue, e], [e, glue] or [glue, e, glue]
Contribution(policy, g, e) ==
    CASE policy = "none"  -> <<e>>
      [] policy = "left"  -> <<g, e>>
      [] policy = "right" -> <<e, g>>
      [] policy = "both"  -> <<g, e, g>>

RECURSIVE Contributions(_, _)
Contributions(g, h) ==
    IF h = << >> THEN << >>
    ELSE Contribution(h[1].policy, g, h[1].elem) \o Contributions(g, Tail(h))

\* the size of an item in the destination: one slot of a Vec, its characters
\* in a String
Size(d, x) == IF d = "Vec" THEN 1 ELSE Len(x)

RECURSIVE ExtraSize(_, _)
ExtraSize(d, es) ==
    IF es = << >> THEN 0 ELSE Size(d, Head(es)) - 1 + ExtraSize(d, Tail(es))

\* C10: after new(glue) and any mix of appends the content is the
\* concatenation, in call order, of each call's own contribution, whatever was
\* accumulated before; it has n_none + 2*n_left + 2*n_right + 3*n_both items
\* (in a String, plus the extra characters of the longer elements) and holds
\* n_left + n_right + 2*n_both inserted glues besides the glue-valued content
\* of the elements themselves.
C10_Contributions ==
    ctor.kind = "new" =>
        LET g == Content(dest, <<ctor.glue>>)[1]
        IN  /\ Welded = Content(dest, Contributions(ctor.glue, hist))
            /\ Len(Welded) = Count("none") + 2 * Count("left")
                               + 2 * Count("right") + 3 * Count("both")
                               + ExtraSize(dest, HistElems)
            /\ Occurrences(g, Welded)
                 = Count("left") + Count("right") + 2 * Count("both")
                     + Occurrences(g, Content(dest, HistElems))

C10_Witness ==
    /\ ctor.kind = "new" /\ pc = "building" /\ Len(hist) >= 3
    /\ hist[1].policy = "right" /\ hist[2].policy = "none"
    /\ hist[3].policy = "both"
    /\ Len(Welded) = 6 + ExtraSize(dest, HistElems)

====
